---- MODULE Spec2Model ----
(***************************************************************************)
(* DocuMCP backend: the generation client (LMStudioService), the           *)
(* orchestrator (DocumentGenerationService) and the two front-end          *)
(* adapters (HTTP router, MCP tool server), as one state machine.          *)
(*                                                                         *)
(* One behaviour is one process.  `mode` says which entry point runs it:   *)
(*   "http"   - uvicorn/FastAPI app (api/generation.py, main.py)           *)
(*   "mcp"    - the MCP stdio server (mcp_server.py)                       *)
(*   "direct" - the service classes used as a library: a client is         *)
(*              constructed, an orchestrator is built over it, and         *)
(*              initialize() / generate_documents() are awaited in turn.   *)
(*                                                                         *)
(* Abstractions: a text is the pair (length, blank?) for caller input and  *)
(* a short sequence of characters for upstream output; wall-clock values   *)
(* are the token "time"; a float is written as its decimal literal.        *)
(***************************************************************************)
EXTENDS Integers, Sequences, FiniteSets, TLC

\* ------------------------------------------------------------------ bounds
MaxSlots == 2   \* longest explicit document_types list of a request

\* --------------------------------------------------------------- constants
\* domain/models.py: DocumentType
PRD          == "prd"
WHAT_IS_THIS == "what_is_this"
README       == "readme"
DocumentType == {PRD, WHAT_IS_THIS, README}

\* domain/models.py: GenerationRequest.document_types default
DefaultDocumentTypes == <<PRD, WHAT_IS_THIS, README>>

\* llm_service.py: LMStudioService.__init__ default model_name
DefaultModelName == "local-model"

\* api/generation.py: the 10KB limit on input_text
MaxInputLength == 10000

\* Python's None
None == "None"

\* ------------------------------------------------------------ input spaces
\* What the upstream models endpoint may do with GET /v1/models.

RECURSIVE SeqsUpTo(_, _)
SeqsUpTo(S, n) ==
    IF n = 0 THEN {<<>>}
    ELSE LET shorter == SeqsUpTo(S, n - 1)
         IN  shorter \cup {Append(s, x) : s \in {t \in shorter : Len(t) = n - 1}, x \in S}

Range(s) == {s[i] : i \in DOMAIN s}

\* Caller input texts, as (length, all-whitespace?): "", " ", "x", a text
\* of exactly the longest accepted length and one a character longer.
InputTexts ==
    { [len |-> 0,                  blank |-> TRUE ],
      [len |-> 1,                  blank |-> TRUE ],
      [len |-> 1,                  blank |-> FALSE],
      [len |-> MaxInputLength,     blank |-> FALSE],
      [len |-> MaxInputLength + 1, blank |-> FALSE] }

\* The input_text arguments a tool caller sends: empty (a missing argument
\* is read as "", arguments.get("input_text", "")), at the HTTP limit,
\* beyond it (handle_call_tool treats them alike).
ToolInputTexts ==
    { t \in InputTexts : t.len \in {0, MaxInputLength, MaxInputLength + 1} }

ProjectNames == {None, "P"}

\* additional_context mappings a caller may send ({} is the default).
EmptyMap == [k \in {} |-> TRUE]
Contexts == { EmptyMap, [error |-> TRUE] }

\* document_types lists a caller may send (duplicates allowed), and the default.
KindLists == SeqsUpTo(DocumentType, MaxSlots) \cup {DefaultDocumentTypes}

\* GenerationRequest values (pydantic has validated kind membership).
Requests ==
    [ input_text : InputTexts, document_types : KindLists,
      project_name : ProjectNames, additional_context : Contexts ]

\* The requests a library caller makes of its own orchestrator (the adapters
\* cover the variety of inputs; the library caller covers the client states).
DirectRequests ==
    { r \in Requests : /\ r.input_text = [len |-> MaxInputLength, blank |-> FALSE]
                       /\ \E n \in 0..Len(DefaultDocumentTypes) :
                              r.document_types = SubSeq(DefaultDocumentTypes, 1, n)
                       /\ r.project_name = None
                       /\ r.additional_context = EmptyMap }

\* Texts the completion endpoint may return as choices[0].message.content.
UpstreamTexts == { <<" ", "\f", "b", " ", "c", "\n">> }

\* The lists it may report: none, the default alone, two other ids, the
\* default behind another id.
ModelLists ==
    { <<>>, <<DefaultModelName>>, <<"m1", "m2">>, <<"m2", DefaultModelName>> }

ModelsOutcomes ==
    { [kind |-> "connect_error", status |-> 0, models |-> <<>>],
      [kind |-> "response",      status |-> 500, models |-> <<>>] }
    \cup { [kind |-> "response", status |-> 200, models |-> ms] : ms \in ModelLists }

\* What the completion endpoint may do with POST /v1/chat/completions.
CompletionOutcomes ==
    { [kind |-> "timeout",  status |-> 0,   text |-> <<>>],
      [kind |-> "response", status |-> 500, text |-> <<"e">>] }
    \cup { [kind |-> "response", status |-> 200, text |-> t] : t \in UpstreamTexts }


\* ------------------------------------------------- LMStudioService (client)

\* str.strip() on an upstream text: drop leading and trailing whitespace.
\* Whitespace is the set of characters c with c.isspace(); a character that
\* has no escape in a TLA+ string is written as its Python escape.
Whitespace ==
    { "\t", "\n", "\\x0b", "\f", "\r", "\\x1c", "\\x1d", "\\x1e", "\\x1f", " ",
      "\\x85", "\\xa0", "\\u1680", "\\u2000", "\\u2001", "\\u2002", "\\u2003",
      "\\u2004", "\\u2005", "\\u2006", "\\u2007", "\\u2008", "\\u2009",
      "\\u200a", "\\u2028", "\\u2029", "\\u202f", "\\u205f", "\\u3000" }

RECURSIVE lstrip(_)
lstrip(t) == IF t # <<>> /\ Head(t) \in Whitespace THEN lstrip(Tail(t)) ELSE t

RECURSIVE rstrip(_)
rstrip(t) ==
    IF t # <<>> /\ t[Len(t)] \in Whitespace
    THEN rstrip(SubSeq(t, 1, Len(t) - 1)) ELSE t

strip(t) == rstrip(lstrip(t))

\* Python truthiness of an Optional[str].
Truthy(s) == s # None /\ s # ""

\* Faulty variant of initialize: _model_loaded is set as soon as the endpoint
\* answers 200, before the model list is looked at.
initialize_loaded_early(name, loaded, o) ==
    IF o.kind = "connect_error"
    THEN [model_name |-> name, loaded |-> loaded,
          error |-> "Cannot connect to LM Studio at http://localhost:1234"]
    ELSE IF o.status = 200
         THEN IF o.models # <<>>
              THEN [model_name |-> IF name \notin Range(o.models)
                                   THEN o.models[1] ELSE name,
                    loaded |-> TRUE, error |-> None]
              ELSE [model_name |-> name, loaded |-> TRUE,
                    error |-> "No models loaded in LM Studio"]
         ELSE [model_name |-> name, loaded |-> loaded,
               error |-> "Failed to connect to LM Studio: " \o ToString(o.status)]

\* LMStudioService.initialize(): the client's fields after the models
\* endpoint did `o`, and the error raised ("None" when it returns normally).
initialize(name, loaded, o) ==
    IF o.kind = "connect_error"
    THEN [model_name |-> name, loaded |-> loaded,
          error |-> "Cannot connect to LM Studio at http://localhost:1234"]
    ELSE IF o.status = 200
         THEN IF o.models # <<>>
              THEN [model_name |-> IF name \notin Range(o.models)
                                   THEN o.models[1] ELSE name,
                    loaded |-> TRUE, error |-> None]
              ELSE [model_name |-> name, loaded |-> loaded,
                    error |-> "No models loaded in LM Studio"]
         ELSE [model_name |-> name, loaded |-> loaded,
               error |-> "Failed to connect to LM Studio: " \o ToString(o.status)]

\* LMStudioService.get_model_info()
get_model_info(name, loaded) ==
    [model_name |-> name, loaded |-> IF loaded THEN "True" ELSE "False",
     service |-> "LM Studio", base_url |-> "http://localhost:1234"]

\* LMStudioService.get_memory_usage()
get_memory_usage ==
    [service |-> "LM Studio", local_service |-> TRUE,
     memory_info |-> "Managed by LM Studio"]

\* LMStudioService._get_generation_prompt and the three templates: the
\* template is fixed by the kind; the project context phrase is empty
\* without a project name.
get_generation_prompt(input_text, document_type, project_name) ==
    [ template |-> document_type,
      project_context |->
          IF Truthy(project_name)
          THEN CASE document_type = PRD          -> <<"for project '", project_name, "'">>
                 [] document_type = WHAT_IS_THIS -> <<"called '", project_name, "'">>
                 [] document_type = README       -> <<"# ", project_name, "\n\n">>
          ELSE <<>>,
      input_text |-> input_text ]

\* The JSON body LMStudioService.generate_document posts to
\* /v1/chat/completions.
completion_request(name, prompt, max_length, temperature) ==
    [ model |-> name, messages |-> <<[role |-> "user", content |-> prompt]>>,
      max_tokens |-> max_length, temperature |-> temperature, stream |-> FALSE ]

\* The error generate_document raises while the client is not loaded.
NotConnected == "LM Studio not connected. Call initialize() first."

\* LMStudioService.generate_document after the POST: what it returns, or
\* str(e) of what it raises, when the completion endpoint did `o`.  The
\* httpx.ReadTimeout of a request that timed out has the empty message.
completion_result(o) ==
    IF o.kind = "timeout"
    THEN [ok |-> FALSE, value |-> ""]
    ELSE IF o.status = 200
         THEN [ok |-> TRUE, value |-> strip(o.text)]
         ELSE [ok |-> FALSE,
               value |-> "LM Studio API error: " \o ToString(o.status)]

\* ------------------------------------ DocumentGenerationService (orchestrator)

\* Faulty variant of get_max_length_for_type: the lookup misses and every kind
\* gets the default.
get_max_length_default(document_type) == 2048

\* DocumentGenerationService._get_max_length_for_type
get_max_length_for_type(document_type) ==
    CASE document_type = PRD          -> 3000
      [] document_type = WHAT_IS_THIS -> 2500
      [] document_type = README       -> 2000
      [] OTHER                        -> 2048

\* DocumentGenerationService._get_temperature_for_type (a float is written
\* as its decimal literal).
get_temperature_for_type(document_type) ==
    CASE document_type = PRD          -> "0.3"
      [] document_type = WHAT_IS_THIS -> "0.7"
      [] document_type = README       -> "0.5"
      [] OTHER                        -> "0.7"

\* dict.update: the entries of `extra` override those of `base`.
update(base, extra) ==
    [k \in DOMAIN base \cup DOMAIN extra |->
        IF k \in DOMAIN extra THEN extra[k] ELSE base[k]]

\* _generate_single_document, after the client returned `content`: the
\* GeneratedDocument of a successful slot.
generated_document(req, document_type, content, name) ==
    [ document_type |-> document_type,
      content       |-> content,
      metadata      |->
          LET metadata ==
                  [ generated_at  |-> "time",
                    project_name  |-> req.project_name,
                    input_length  |-> req.input_text.len,
                    output_length |-> Len(content),
                    model         |-> name ]
          IN  IF DOMAIN req.additional_context # {}
              THEN update(metadata, req.additional_context)
              ELSE metadata ]

\* generate_documents: the error document put in the place of a slot whose
\* task raised `err`.
error_document(document_type, err) ==
    [ document_type |-> document_type,
      content       |-> <<"# Error\n\nFailed to generate ", document_type, ": ", err>>,
      metadata      |-> [error |-> TRUE, error_message |-> err] ]


\* One entry of the list asyncio.gather awaits: the task running
\* _generate_single_document for one slot.
\*   pc         : "created" | "awaiting" (POST in flight) | "returned" | "raised"
\*   was_loaded : is_loaded as generate_document read it
\*   sent       : the completion requests this task has posted, in order
\*   reply      : what the completion endpoint did with the request
\*   doc        : the GeneratedDocument it returned (pc = "returned")
\*   error      : str(e) of the exception it raised (pc = "raised")
NoDocument == [document_type |-> None, content |-> <<>>, metadata |-> EmptyMap]
NoCompletion == [kind |-> "none", status |-> 0, text |-> <<>>]
NewTask ==
    [pc |-> "created", was_loaded |-> FALSE, sent |-> <<>>,
     reply |-> NoCompletion, doc |-> NoDocument, error |-> ""]

Settled(t) == t.pc \in {"returned", "raised"}

\* Faulty variant of gather_ready: gather completes at the first task that raises.
gather_ready_at_first_exception(ts) ==
    \/ \A i \in DOMAIN ts : Settled(ts[i])
    \/ \E i \in DOMAIN ts : ts[i].pc = "raised"

\* asyncio.gather(*tasks, return_exceptions=True) completes when every task
\* has settled, whether it returned or raised.
gather_ready(ts) == \A i \in DOMAIN ts : Settled(ts[i])

\* Faulty variant of gather: return_exceptions left at its default, so the first
\* exception among the tasks is raised to the awaiter.
gather_raising(ts) ==
    LET failed == {i \in DOMAIN ts : ts[i].pc = "raised"}
        first  == CHOOSE i \in failed : \A j \in failed : i <= j
    IN  [ raised  |-> IF failed = {} THEN "" ELSE ts[first].error,
          results |-> [i \in DOMAIN ts |->
                         [is_exception |-> FALSE, doc |-> ts[i].doc,
                          error |-> ts[i].error]] ]

\* What `await asyncio.gather(*tasks, return_exceptions=True)` gives back:
\* never an exception; the results in the order of the tasks, an exception
\* standing in the place of a task that raised.
gather(ts) ==
    [ raised  |-> "",
      results |-> [i \in DOMAIN ts |->
                     [is_exception |-> ts[i].pc = "raised",
                      doc |-> ts[i].doc, error |-> ts[i].error]] ]

\* Faulty variant of process_results: a slot whose task raised is left out.
process_results_skipping_failures(req, results) ==
    LET kept == SelectSeq(results, LAMBDA r : ~r.is_exception)
    IN  [i \in DOMAIN kept |-> kept[i].doc]

\* generate_documents, lines 43-57: one document per result, in order.
process_results(req, results) ==
    [i \in DOMAIN results |->
        IF results[i].is_exception
        THEN error_document(req.document_types[i], results[i].error)
        ELSE results[i].doc]

NoResponse == [documents |-> <<>>, generation_time |-> None, model_info |-> EmptyMap]

\* ------------------------------------------------------------ MCP adapter

ToolNames == {"generate_documents", "generate_prd", "generate_readme",
              "generate_overview", "no_such_tool"}

\* document_types arguments of the combined tool: lists of strings, which the
\* handler does not validate; given = FALSE when the argument is omitted;
\* is_list = FALSE for a JSON value that is no array (a number).
KindStrings == DocumentType \cup {"pdf"}
ToolKindArgs ==
    { [given |-> TRUE, is_list |-> TRUE, value |-> strs] :
          strs \in SeqsUpTo(KindStrings, MaxSlots) }
    \cup { [given |-> TRUE,  is_list |-> FALSE, value |-> <<>>],
           [given |-> FALSE, is_list |-> TRUE,  value |-> <<>>] }

\* _handle_generate_documents, lines 123-131: strings to enum members; a
\* string that names no kind is skipped.
RECURSIVE convert_document_types(_)
convert_document_types(strs) ==
    IF strs = <<>> THEN <<>>
    ELSE IF Head(strs) \in DocumentType
         THEN <<Head(strs)>> \o convert_document_types(Tail(strs))
         ELSE convert_document_types(Tail(strs))

\* doc.document_type.value.replace("_", " ").title()
doc_type_name(document_type) ==
    CASE document_type = PRD          -> "Prd"
      [] document_type = WHAT_IS_THIS -> "What Is This"
      [] document_type = README       -> "Readme"

\* TextContent items.  `part` names the f-string that produced the text and
\* the other fields are the values interpolated into it.
TextItem(part, count, label, content) ==
    [type |-> "text", part |-> part, count |-> count, label |-> label,
     content |-> content]

\* _handle_generate_documents, lines 137-145: a summary item first, then one
\* labelled item per document.
combined_reply(resp) ==
    <<TextItem("summary", Len(resp.documents), "", <<>>)>> \o
    [i \in DOMAIN resp.documents |->
        TextItem("document", 0, doc_type_name(resp.documents[i].document_type),
                 resp.documents[i].content)]

\* Faulty variant of single_reply: an error document is not passed on.
single_reply_hiding_errors(resp) ==
    IF resp.documents # <<>>
          /\ "error" \notin DOMAIN resp.documents[1].metadata
    THEN <<TextItem("content", 0, "", resp.documents[1].content)>>
    ELSE <<TextItem("No document generated", 0, "", <<>>)>>

\* _handle_generate_single_document, lines 157-161.
single_reply(resp) ==
    IF resp.documents # <<>>
    THEN <<TextItem("content", 0, "", resp.documents[1].content)>>
    ELSE <<TextItem("No document generated", 0, "", <<>>)>>

\* handle_call_tool's single-item replies.
error_reply(msg) == <<TextItem("Error: ", 0, msg, <<>>)>>
unknown_tool_reply(name) == <<TextItem("Unknown tool: ", 0, name, <<>>)>>

\* ------------------------------------------- HTTP adapter: health, metrics

\* Faulty variant of get_llm_service: a missing handle is let through.
get_llm_service_unchecked(handle) == 0

\* get_llm_service: the status with which a route depending on it answers
\* before its body runs (0: the body runs).
get_llm_service(handle) == IF handle = None THEN 503 ELSE 0

\* HealthResponse.memory_usage is Optional[Dict[str, float]], and
\* health_check passes it get_memory_usage(): pydantic takes the bool of
\* local_service for a float and reports the two strings, neither of which
\* spells a number.
memory_usage_errors ==
    << [loc |-> "memory_usage.service", input_value |-> get_memory_usage.service],
       [loc |-> "memory_usage.memory_info",
        input_value |-> get_memory_usage.memory_info] >>

\* str(e) of the pydantic ValidationError that reports `errs` (pydantic 2.13).
RECURSIVE validation_error_lines(_)
validation_error_lines(errs) ==
    IF errs = <<>> THEN ""
    ELSE "\n" \o Head(errs).loc
         \o "\n  Input should be a valid number, unable to parse string as a number"
         \o " [type=float_parsing, input_value='" \o Head(errs).input_value
         \o "', input_type=str]"
         \o "\n    For further information visit "
         \o "https://errors.pydantic.dev/2.13/v/float_parsing"
         \o validation_error_lines(Tail(errs))

validation_error_text(errs) ==
    ToString(Len(errs))
    \o (IF Len(errs) = 1 THEN " validation error" ELSE " validation errors")
    \o " for HealthResponse" \o validation_error_lines(errs)

NoHealth == [status |-> None, message |-> None, model_loaded |-> FALSE,
             memory_usage |-> None]

\* Faulty variant of health_check: the status does not look at is_loaded.
health_check_always_healthy(loaded) ==
    [status |-> "healthy", message |-> "DocuMCP is running and model is loaded",
     model_loaded |-> TRUE, memory_usage |-> None]

\* api/generation.py health_check, the body: the HealthResponse returned.
\* With the model loaded, memory_usage is get_memory_usage(), HealthResponse
\* refuses it, and the except branch answers instead.
health_check(loaded) ==
    IF ~loaded
    THEN [status |-> "model_not_loaded",
          message |-> "DocuMCP is running but model is not loaded",
          model_loaded |-> FALSE, memory_usage |-> None]
    ELSE IF memory_usage_errors = <<>>
         THEN [status |-> "healthy",
               message |-> "DocuMCP is running and model is loaded",
               model_loaded |-> TRUE, memory_usage |-> get_memory_usage]
         ELSE [status |-> "error",
               message |-> "Health check failed: "
                               \o validation_error_text(memory_usage_errors),
               model_loaded |-> FALSE, memory_usage |-> None]

NoMetrics == [model_loaded |-> 0, model_info |-> EmptyMap,
              memory_allocated_gb |-> None, memory_reserved_gb |-> None,
              memory_max_allocated_gb |-> None]

\* api/generation.py metrics, the body: get_memory_usage() is a non-empty
\* dict without the three *_gb keys, so each of them reads its default 0.
metrics(name, loaded) ==
    [model_loaded |-> IF loaded THEN 1 ELSE 0,
     model_info |-> get_model_info(name, loaded),
     memory_allocated_gb |-> "0", memory_reserved_gb |-> "0",
     memory_max_allocated_gb |-> "0"]

\* The answer to a GET /api/v1/health or GET /api/v1/metrics.
NoProbe == [endpoint |-> None, status |-> 0, health |-> NoHealth,
            metrics |-> NoMetrics]

\* ------------------------------------------------------------------- state
VARIABLES
    mode,              \* "http" | "mcp" | "direct"
    startup,           \* adapters: "boot" | "initializing" | "serving" | "failed"
    llm_service,       \* the adapter's global handle: None or "LMStudioService"
    document_service,  \* the adapter's global handle: None or "DocumentGenerationService"
    model_name,        \* LMStudioService.model_name
    model_loaded,      \* LMStudioService._model_loaded
    init_pc,           \* initialize(): "idle" | "awaiting" (GET /v1/models in flight)
    init_result,       \* the last initialize(): "never" | "ok" | "raised"
    models_reply,      \* what the models endpoint did with the last initialize()
    reported,          \* model ids reported to the last successful initialize()
    call_pc,           \* the current request: "idle" | "resolved" (HTTP: the
                       \* dependency returned, the route body has not run) |
                       \* "gathering" | "answered"
    tool,              \* MCP: name of the tool called (None otherwise)
    tool_kinds,        \* MCP: the document_types argument as received
    request,           \* the GenerationRequest of the current request
    invoked,           \* did the current request reach generate_documents
    tasks,             \* the tasks generate_documents gathers
    response,          \* the GenerationResponse generate_documents returned
    raised,            \* str(e) of an exception that left generate_documents
    http_status,       \* HTTP: status of the answer (0: none yet)
    mcp_items,         \* MCP: the TextContent list returned
    probe              \* HTTP: the answer to the last health or metrics query

client_vars  == <<model_name, model_loaded, init_pc, init_result, models_reply,
                  reported>>
global_vars  == <<startup, llm_service, document_service>>
call_vars    == <<call_pc, tool, tool_kinds, request, invoked, tasks, response,
                  raised, http_status, mcp_items>>
vars == <<mode, startup, llm_service, document_service, model_name, model_loaded,
          init_pc, init_result, models_reply, reported, call_pc, tool, tool_kinds, request,
          invoked, tasks, response, raised, http_status, mcp_items, probe>>

NoModelsReply == [kind |-> "none", status |-> 0, models |-> <<>>]

NoRequest == [input_text |-> [len |-> 0, blank |-> TRUE], document_types |-> <<>>,
              project_name |-> None, additional_context |-> EmptyMap]

\* The state after the module globals are set (http, mcp) or after
\* LMStudioService() and DocumentGenerationService(llm) are constructed
\* (direct).
Init ==
    /\ mode \in {"http", "mcp", "direct"}
    /\ startup = IF mode = "direct" THEN "library" ELSE "boot"
    /\ llm_service = IF mode = "direct" THEN "LMStudioService" ELSE None
    /\ document_service = IF mode = "direct" THEN "DocumentGenerationService" ELSE None
    /\ model_name = DefaultModelName
    /\ model_loaded = FALSE
    /\ init_pc = "idle"
    /\ init_result = "never"
    /\ models_reply = NoModelsReply
    /\ reported = <<>>
    /\ call_pc = "idle"
    /\ tool = None
    /\ tool_kinds = [given |-> FALSE, is_list |-> TRUE, value |-> <<>>]
    /\ request = NoRequest
    /\ invoked = FALSE
    /\ tasks = <<>>
    /\ response = NoResponse
    /\ raised = ""
    /\ http_status = 0
    /\ mcp_items = <<>>
    /\ probe = NoProbe


\* ----------------------------------------------------------------- startup

\* api/generation.py initialize_services, up to `await llm_service.initialize()`
\* (run by main.py's lifespan): the client handle is published, the
\* orchestrator handle is not.
HttpInitializeServices ==
    /\ mode = "http" /\ startup = "boot"
    /\ startup' = "initializing"
    /\ llm_service' = "LMStudioService"
    /\ document_service' = document_service
    /\ model_name' = DefaultModelName /\ model_loaded' = FALSE
    /\ init_pc' = "awaiting"
    /\ UNCHANGED <<mode, probe, init_result, models_reply, reported, call_vars>>

\* mcp_server.py initialize_services, up to `await llm_service.initialize()`
\* (run by main() before server.run).
McpInitializeServices ==
    /\ mode = "mcp" /\ startup = "boot"
    /\ startup' = "initializing"
    /\ llm_service' = "LMStudioService"
    /\ document_service' = document_service
    /\ model_name' = DefaultModelName /\ model_loaded' = FALSE
    /\ init_pc' = "awaiting"
    /\ UNCHANGED <<mode, probe, init_result, models_reply, reported, call_vars>>

\* A library caller awaits initialize() on its client (again, if it likes).
\* The library caller is one sequential coroutine: it awaits one call at a
\* time, initialize() or generate_documents().
DirectInitialize ==
    /\ mode = "direct" /\ init_pc = "idle" /\ call_pc = "idle"
    /\ init_pc' = "awaiting"
    /\ UNCHANGED <<mode, probe, global_vars, model_name, model_loaded, init_result,
                   models_reply, reported, call_vars>>

\* Faulty variant of publish: the orchestrator handle is set whatever initialize() did.
publish_always(handle, error) == "DocumentGenerationService"

\* initialize_services after `await llm_service.initialize()`: the
\* orchestrator handle is published when initialize() returned, and the
\* error leaves initialize_services (and ends startup) when it raised.
publish(handle, error) ==
    IF error = None THEN "DocumentGenerationService" ELSE handle

\* The models endpoint answers (or the connection fails): the rest of
\* initialize(), and for an adapter the rest of initialize_services.
ModelsRespond(o) ==
    /\ init_pc = "awaiting"
    /\ LET r == initialize(model_name, model_loaded, o)
       IN  /\ model_name' = r.model_name
           /\ model_loaded' = r.loaded
           /\ init_result' = IF r.error = None THEN "ok" ELSE "raised"
           /\ models_reply' = o
           /\ reported' = IF r.error = None THEN o.models ELSE reported
           /\ IF mode = "direct"
              THEN UNCHANGED <<startup, document_service>>
              ELSE /\ startup' = IF r.error = None THEN "serving" ELSE "failed"
                   /\ document_service' = publish(document_service, r.error)
    /\ init_pc' = "idle"
    /\ UNCHANGED <<mode, probe, llm_service, call_vars>>

\* ------------------------------------------------------------ the requests

\* generate_documents, lines 23-41: one task per requested kind, handed to
\* asyncio.gather.
StartGeneration(req) ==
    /\ request' = req
    /\ invoked' = TRUE
    /\ tasks' = [i \in 1..Len(req.document_types) |-> NewTask]
    /\ call_pc' = "gathering"
    /\ response' = NoResponse
    /\ raised' = ""

\* A request answered by the adapter without reaching the orchestrator.
AnswerWithoutGeneration(req) ==
    /\ request' = req
    /\ invoked' = FALSE
    /\ tasks' = <<>>
    /\ call_pc' = "answered"
    /\ response' = NoResponse
    /\ raised' = ""

\* get_document_service: the status with which POST /api/v1/generate answers
\* before its body runs (0: the body runs).
get_document_service(handle) == IF handle = None THEN 503 ELSE 0

\* Faulty variant of http_rejection: the length check refuses the limit itself.
http_rejection_at_limit(req) ==
    IF req.input_text.blank THEN 400
    ELSE IF req.input_text.len >= MaxInputLength THEN 400
    ELSE 0

\* The status with which the body of POST /api/v1/generate answers before
\* the orchestrator is called, 0 when the request goes on to the
\* orchestrator: the two input checks.
http_rejection(req) ==
    IF req.input_text.blank THEN 400
    ELSE IF req.input_text.len > MaxInputLength THEN 400
    ELSE 0

\* POST /api/v1/generate arrives and FastAPI resolves the route's dependency,
\* get_document_service, on a worker thread: 503 without a handle; with one,
\* the route body is scheduled on the event loop and other callbacks may run
\* before it.  The HTTP caller sends one request at a time.
HttpGenerate(req) ==
    /\ mode = "http" /\ call_pc = "idle" /\ probe = NoProbe
    /\ IF get_document_service(document_service) # 0
       THEN /\ AnswerWithoutGeneration(req)
            /\ http_status' = get_document_service(document_service)
       ELSE /\ request' = req
            /\ call_pc' = "resolved"
            /\ UNCHANGED <<invoked, tasks, response, raised, http_status>>
    /\ UNCHANGED <<mode, probe, global_vars, client_vars, tool, tool_kinds, mcp_items>>

\* The route body of POST /api/v1/generate runs: api/generation.py
\* generate_documents up to `await doc_service.generate_documents(request)`.
HttpGenerateBody ==
    /\ mode = "http" /\ call_pc = "resolved"
    /\ LET status == http_rejection(request)
       IN  IF status # 0
           THEN AnswerWithoutGeneration(request) /\ http_status' = status
           ELSE StartGeneration(request) /\ http_status' = 0
    /\ UNCHANGED <<mode, probe, global_vars, client_vars, tool, tool_kinds, mcp_items>>

\* GET /api/v1/health arrives and its dependency, get_llm_service, is
\* resolved on a worker thread: 503 without a handle; with one, the route
\* body is scheduled (status 0: not answered yet).
HttpHealth ==
    /\ mode = "http" /\ call_pc = "idle" /\ probe = NoProbe
    /\ probe' = [NoProbe EXCEPT !.endpoint = "health",
                                !.status = get_llm_service(llm_service)]
    /\ UNCHANGED <<mode, global_vars, client_vars, call_vars>>

\* The route body of GET /api/v1/health runs (it awaits nothing).
HttpHealthBody ==
    /\ probe.endpoint = "health" /\ probe.status = 0
    /\ probe' = [probe EXCEPT !.status = 200,
                              !.health = health_check(model_loaded)]
    /\ UNCHANGED <<mode, global_vars, client_vars, call_vars>>

\* GET /api/v1/metrics arrives and get_llm_service is resolved.
HttpMetrics ==
    /\ mode = "http" /\ call_pc = "idle" /\ probe = NoProbe
    /\ probe' = [NoProbe EXCEPT !.endpoint = "metrics",
                                !.status = get_llm_service(llm_service)]
    /\ UNCHANGED <<mode, global_vars, client_vars, call_vars>>

\* The route body of GET /api/v1/metrics runs (it awaits nothing).
HttpMetricsBody ==
    /\ probe.endpoint = "metrics" /\ probe.status = 0
    /\ probe' = [probe EXCEPT !.status = 200,
                              !.metrics = metrics(model_name, model_loaded)]
    /\ UNCHANGED <<mode, global_vars, client_vars, call_vars>>

\* The caller has read the answer to its health or metrics query.
ProbeFinish ==
    /\ probe.status # 0
    /\ probe' = NoProbe
    /\ UNCHANGED <<mode, global_vars, client_vars, call_vars>>

\* The GenerationRequest an MCP tool builds from its arguments.
tool_request(name, input_text, project_name, kinds) ==
    [ input_text |-> input_text,
      document_types |->
          CASE name = "generate_documents" ->
                   IF kinds.given THEN convert_document_types(kinds.value)
                   ELSE convert_document_types(DefaultDocumentTypes)
            [] name = "generate_prd"      -> <<PRD>>
            [] name = "generate_readme"   -> <<README>>
            [] name = "generate_overview" -> <<WHAT_IS_THIS>>
            [] OTHER                      -> <<>>,
      project_name |-> project_name,
      additional_context |-> EmptyMap ]

\* The exception a tool handler raises before it reaches the orchestrator
\* ("" when it raises none): the loop of line 125 over a document_types
\* argument that cannot be iterated.
tool_arguments_error(name, kinds) ==
    IF name = "generate_documents" /\ kinds.given /\ ~kinds.is_list
    THEN "'int' object is not iterable"
    ELSE ""

\* A tool call arrives: mcp_server.py handle_call_tool up to
\* `await document_service.generate_documents(request)`.  Only the combined
\* tool's inputSchema (lines 38-53) has a document_types argument.
McpCallTool(name, input_text, project_name, kinds) ==
    /\ mode = "mcp" /\ call_pc = "idle"
    /\ name = "generate_documents" \/ ~kinds.given
    /\ tool' = name
    /\ tool_kinds' = kinds
    /\ LET req == tool_request(name, input_text, project_name, kinds)
       IN  IF document_service = None
           THEN /\ AnswerWithoutGeneration(req)
                /\ mcp_items' = error_reply("Document service not initialized")
           ELSE IF name \notin {"generate_documents", "generate_prd",
                                "generate_readme", "generate_overview"}
                THEN /\ AnswerWithoutGeneration(req)
                     /\ mcp_items' = unknown_tool_reply(name)
                ELSE IF tool_arguments_error(name, kinds) # ""
                     THEN /\ AnswerWithoutGeneration(req)
                          /\ mcp_items' =
                                 error_reply(tool_arguments_error(name, kinds))
                     ELSE StartGeneration(req) /\ mcp_items' = <<>>
    /\ UNCHANGED <<mode, probe, global_vars, client_vars, http_status>>

\* A library caller awaits generate_documents(req) on its orchestrator.
DirectGenerate(req) ==
    /\ mode = "direct" /\ call_pc = "idle" /\ init_pc = "idle"
    /\ StartGeneration(req)
    /\ UNCHANGED <<mode, probe, global_vars, client_vars, tool, tool_kinds,
                   http_status, mcp_items>>


\* ---------------------------------------------------------- the slot tasks

\* Faulty variant of can_start: the slots are awaited one after the other.
can_start_in_turn(ts, i) ==
    /\ i \in DOMAIN ts /\ ts[i].pc = "created"
    /\ \A j \in 1..(i - 1) : Settled(ts[j])

\* May the task of slot i take its first step?  gather wraps every coroutine
\* in a task of its own and the event loop runs each of them as soon as it
\* is ready: a created task waits for no other task.
can_start(ts, i) == i \in DOMAIN ts /\ ts[i].pc = "created"

\* Faulty variant of begin_generate_document: the is_loaded check is missing.
begin_generate_document_unchecked(t, req, document_type, name, loaded) ==
    [t EXCEPT !.pc = "awaiting", !.was_loaded = loaded,
              !.sent = Append(t.sent,
                  completion_request(
                      name,
                      get_generation_prompt(req.input_text, document_type,
                                            req.project_name),
                      get_max_length_for_type(document_type),
                      get_temperature_for_type(document_type)))]

\* LMStudioService.generate_document up to `await self.client.post(...)`,
\* called by _generate_single_document for slot i: the is_loaded check, then
\* the prompt and the request with the kind's max_length and temperature.
begin_generate_document(t, req, document_type, name, loaded) ==
    IF ~loaded
    THEN [t EXCEPT !.pc = "raised", !.was_loaded = loaded, !.error = NotConnected]
    ELSE [t EXCEPT !.pc = "awaiting", !.was_loaded = loaded,
                   !.sent = Append(t.sent,
                       completion_request(
                           name,
                           get_generation_prompt(req.input_text, document_type,
                                                 req.project_name),
                           get_max_length_for_type(document_type),
                           get_temperature_for_type(document_type)))]

\* The task of slot i runs from its start to its first suspension.
StartSlot(i) ==
    /\ call_pc = "gathering"
    /\ can_start(tasks, i)
    /\ tasks' = [tasks EXCEPT ![i] =
                    begin_generate_document(tasks[i], request,
                                            request.document_types[i],
                                            model_name, model_loaded)]
    /\ UNCHANGED <<mode, probe, global_vars, client_vars, call_pc, tool, tool_kinds,
                   request, invoked, response, raised, http_status, mcp_items>>

\* Faulty variant of finish_generate_document: a failed request is sent once
\* more before the failure is raised.
finish_generate_document_retrying(t, req, document_type, name, o) ==
    LET r == completion_result(o)
    IN  IF r.ok
        THEN [t EXCEPT !.pc = "returned", !.reply = o,
                       !.doc = generated_document(req, document_type, r.value, name)]
        ELSE IF Len(t.sent) < 2
             THEN [t EXCEPT !.pc = "awaiting", !.reply = o,
                            !.sent = Append(t.sent, t.sent[Len(t.sent)])]
             ELSE [t EXCEPT !.pc = "raised", !.reply = o, !.error = r.value]

\* The rest of generate_document and of _generate_single_document for a task
\* whose POST ended with `o`: the document on success, the exception
\* re-raised otherwise (no second attempt).
finish_generate_document(t, req, document_type, name, o) ==
    LET r == completion_result(o)
    IN  IF r.ok
        THEN [t EXCEPT !.pc = "returned", !.reply = o,
                       !.doc = generated_document(req, document_type, r.value, name)]
        ELSE [t EXCEPT !.pc = "raised", !.reply = o, !.error = r.value]

\* The completion endpoint answers slot i's request, or the request times
\* out (the httpx client carries a 300 s timeout).
CompletionRespond(i, o) ==
    /\ call_pc = "gathering"
    /\ i \in DOMAIN tasks /\ tasks[i].pc = "awaiting"
    /\ tasks' = [tasks EXCEPT ![i] =
                    finish_generate_document(tasks[i], request,
                                             request.document_types[i],
                                             model_name, o)]
    /\ UNCHANGED <<mode, probe, global_vars, client_vars, call_pc, tool, tool_kinds,
                   request, invoked, response, raised, http_status, mcp_items>>

\* ------------------------------------------------------------- the fan-in

\* Faulty variant of generate_documents_result: a not-connected failure among the
\* tasks is re-raised instead of becoming a document.
generate_documents_result_reraising(ts, req, name, loaded) ==
    LET g == gather(ts)
    IN  IF \E i \in DOMAIN ts : ts[i].pc = "raised" /\ ts[i].error = NotConnected
        THEN [raised |-> NotConnected, response |-> NoResponse]
        ELSE [raised |-> "",
              response |-> [documents |-> process_results(req, g.results),
                            generation_time |-> "time",
                            model_info |-> get_model_info(name, loaded)]]

\* generate_documents from the return of gather to its own return.
generate_documents_result(ts, req, name, loaded) ==
    LET g == gather(ts)
    IN  IF g.raised # ""
        THEN [raised |-> g.raised, response |-> NoResponse]
        ELSE [raised |-> "",
              response |-> [documents |-> process_results(req, g.results),
                            generation_time |-> "time",
                            model_info |-> get_model_info(name, loaded)]]

\* POST /api/v1/generate after the orchestrator: 200 with the response, 500
\* for any exception that is not an HTTPException.
http_answer(r) == IF r.raised # "" THEN 500 ELSE 200

\* handle_call_tool after the orchestrator: the tool's items, or the
\* exception as a single "Error: ..." item.
mcp_answer(name, r) ==
    IF r.raised # "" THEN error_reply(r.raised)
    ELSE IF name = "generate_documents" THEN combined_reply(r.response)
    ELSE single_reply(r.response)

\* gather completes: generate_documents assembles the response and returns
\* it to the adapter, which answers the caller.
GatherReturn ==
    /\ call_pc = "gathering"
    /\ gather_ready(tasks)
    /\ LET r == generate_documents_result(tasks, request, model_name, model_loaded)
       IN  /\ response' = r.response
           /\ raised' = r.raised
           /\ http_status' = IF mode = "http" THEN http_answer(r) ELSE http_status
           /\ mcp_items' = IF mode = "mcp" THEN mcp_answer(tool, r) ELSE mcp_items
    /\ call_pc' = "answered"
    /\ UNCHANGED <<mode, probe, global_vars, client_vars, tool, tool_kinds, request,
                   invoked, tasks>>

\* The caller has read the answer; the adapter is ready for the next request.
Finish ==
    /\ call_pc = "answered"
    /\ call_pc' = "idle"
    /\ tool' = None
    /\ tool_kinds' = [given |-> FALSE, is_list |-> TRUE, value |-> <<>>]
    /\ request' = NoRequest
    /\ invoked' = FALSE
    /\ tasks' = <<>>
    /\ response' = NoResponse
    /\ raised' = ""
    /\ http_status' = 0
    /\ mcp_items' = <<>>
    /\ UNCHANGED <<mode, probe, global_vars, client_vars>>

\* ----------------------------------------------------------- specification
Next ==
    \/ HttpInitializeServices
    \/ McpInitializeServices
    \/ DirectInitialize
    \/ init_pc = "awaiting" /\ \E o \in ModelsOutcomes : ModelsRespond(o)
    \/ mode = "http" /\ call_pc = "idle" /\ probe = NoProbe /\
           \E req \in Requests : HttpGenerate(req)
    \/ HttpGenerateBody
    \/ HttpHealth
    \/ HttpHealthBody
    \/ HttpMetrics
    \/ HttpMetricsBody
    \/ ProbeFinish
    \/ mode = "mcp" /\ call_pc = "idle" /\
           \E name \in ToolNames, input_text \in ToolInputTexts,
              project_name \in ProjectNames, kinds \in ToolKindArgs :
              McpCallTool(name, input_text, project_name, kinds)
    \/ mode = "direct" /\ call_pc = "idle" /\
           \E req \in DirectRequests : DirectGenerate(req)
    \/ \E i \in DOMAIN tasks : StartSlot(i)
    \/ \E i \in DOMAIN tasks : \E o \in CompletionOutcomes : CompletionRespond(i, o)
    \/ GatherReturn
    \/ Finish

Spec == Init /\ [][Next]_vars

\* A call in progress keeps moving: the event loop runs a task that is ready,
\* an upstream call in flight answers or times out (the client's 300 s
\* timeout), and a completed gather resumes its awaiter.
FairSpec ==
    /\ Spec
    /\ WF_vars(\/ \E i \in DOMAIN tasks : StartSlot(i)
               \/ \E i \in DOMAIN tasks :
                      \E o \in CompletionOutcomes : CompletionRespond(i, o)
               \/ GatherReturn)

\* ------------------------------------------------------------------ claims

\* generate_documents has returned to its caller (or raised).
Returned == call_pc = "answered" /\ invoked

\* Some initialize() has returned normally.
Initialized == reported # <<>>

\* C1: whatever slots failed and in whatever order the upstream calls
\* completed, generate_documents returns a response with exactly one
\* document per requested kind, documents[i].document_type being
\* document_types[i]; an empty list gives an empty documents list.
C1_OneDocumentPerSlotInOrder ==
    Returned =>
        /\ raised = ""
        /\ Len(response.documents) = Len(request.document_types)
        /\ \A i \in DOMAIN request.document_types :
               response.documents[i].document_type = request.document_types[i]

\* C1 witness: the same kind requested twice, the first slot failed and the
\* second succeeded, and the response is there.
C1_Witness ==
    /\ Returned
    /\ Len(request.document_types) = 2
    /\ request.document_types[1] = request.document_types[2]
    /\ tasks[1].pc = "raised" /\ tasks[2].pc = "returned"
    /\ Len(response.documents) = 2

\* C2: no exception leaves generate_documents when slots fail: a failed
\* slot is a document whose content is the error message and whose metadata
\* has error = true and the error text, every other slot carries the
\* (trimmed) text its upstream call returned, and the HTTP endpoint answers
\* 200.
C2_FailuresBecomeDocuments ==
    Returned =>
        /\ raised = ""
        /\ DOMAIN response.documents = DOMAIN tasks
        /\ \A i \in DOMAIN tasks :
               IF tasks[i].pc = "raised"
               THEN /\ response.documents[i].content =
                           <<"# Error\n\nFailed to generate ",
                             request.document_types[i], ": ", tasks[i].error>>
                    /\ "error" \in DOMAIN response.documents[i].metadata
                    /\ response.documents[i].metadata.error = TRUE
                    /\ response.documents[i].metadata.error_message = tasks[i].error
               ELSE /\ tasks[i].reply.status = 200
                    /\ response.documents[i].content = strip(tasks[i].reply.text)
        /\ (mode = "http" => http_status = 200)

\* C2 witness: an HTTP request answered 200 with one failed and one
\* successful slot.
C2_Witness ==
    /\ Returned /\ mode = "http" /\ http_status = 200
    /\ \E i, j \in DOMAIN tasks :
           /\ tasks[i].pc = "raised" /\ tasks[i].reply.kind = "timeout"
           /\ tasks[j].pc = "returned"

\* C3: inside one generate_documents call every slot's request can be
\* issued whatever the state of the other slots, and every request in
\* flight can complete whatever the state of the other slots.
C3_SlotsDoNotWaitForEachOther ==
    call_pc = "gathering" =>
        \A i \in DOMAIN tasks :
            /\ tasks[i].pc = "created" => ENABLED StartSlot(i)
            /\ tasks[i].pc = "awaiting" =>
                   ENABLED (\E o \in CompletionOutcomes : CompletionRespond(i, o))

\* C3 witness: three slots, all three upstream calls in flight at once.
C3_Witness ==
    /\ call_pc = "gathering"
    /\ Len(tasks) = 3
    /\ \A i \in DOMAIN tasks : tasks[i].pc = "awaiting"

\* C4: generate_documents does not return while a slot's upstream call is
\* in flight (also when another slot has failed already), and when every
\* upstream call answers or fails it does return.
C4_ReturnsWhenAllSettledAndOnlyThen ==
    /\ [](Returned => \A i \in DOMAIN tasks : Settled(tasks[i]))
    /\ (call_pc = "gathering" ~> call_pc = "answered")

\* C4 witness: one slot has failed, another is still in flight, and the call
\* has not returned.
C4_Witness ==
    /\ call_pc = "gathering"
    /\ \E i, j \in DOMAIN tasks :
           tasks[i].pc = "raised" /\ tasks[j].pc = "awaiting"

\* C5: a generate_document call that finds the client not loaded raises the
\* not-connected error and posts nothing; and the client is not loaded as
\* long as no initialize() has succeeded.
C5_NotLoadedCallFailsWithoutRequest ==
    /\ ~Initialized => ~model_loaded
    /\ \A i \in DOMAIN tasks :
           (tasks[i].pc # "created" /\ ~tasks[i].was_loaded) =>
               /\ tasks[i].pc = "raised"
               /\ tasks[i].error = NotConnected
               /\ tasks[i].sent = <<>>

\* C5 witness: the only initialize() so far failed, and a generation call
\* then raised the not-connected error.
C5_Witness ==
    /\ init_result = "raised" /\ ~Initialized
    /\ \E i \in DOMAIN tasks :
           tasks[i].pc = "raised" /\ tasks[i].error = NotConnected

\* C6 as stated: when generate_documents runs over a client that is not
\* initialized, the not-initialized failure leaves the orchestrator as an
\* exception instead of a response.
C6_Original ==
    (Returned /\ tasks # <<>> /\ \A i \in DOMAIN tasks : ~tasks[i].was_loaded)
        => raised # ""

\* C6 as amended: when generate_documents runs over a client that is not
\* initialized, no exception leaves it: it returns a normal response in
\* which every requested slot is an error document carrying the
\* not-connected message, and nothing was posted upstream.
C6_NotInitializedBecomesErrorDocuments ==
    (Returned /\ \A i \in DOMAIN tasks : ~tasks[i].was_loaded) =>
        /\ raised = ""
        /\ Len(response.documents) = Len(request.document_types)
        /\ \A i \in DOMAIN tasks :
               /\ tasks[i].sent = <<>>
               /\ response.documents[i].document_type = request.document_types[i]
               /\ response.documents[i].metadata.error = TRUE
               /\ response.documents[i].metadata.error_message = NotConnected

\* C6 witness: a call over a client that was never initialized has returned
\* a response of two error documents.
C6_Witness ==
    /\ Returned /\ ~model_loaded /\ raised = ""
    /\ Len(response.documents) = 2
    /\ \A i \in DOMAIN tasks : tasks[i].error = NotConnected

\* C7: on both front ends the orchestrator handle is set only after an
\* initialize() succeeded, a request that arrives earlier is answered
\* without reaching the orchestrator, and no completion request is posted
\* before an initialize() succeeded.
C7_NoUpstreamBeforeInitialize ==
    /\ mode \in {"http", "mcp"} =>
           /\ document_service # None => (Initialized /\ model_loaded)
           /\ (call_pc # "idle" /\ ~Initialized) =>
                  /\ ~invoked /\ tasks = <<>>
                  /\ mode = "http" => http_status = 503
                  /\ mode = "mcp" =>
                         mcp_items = error_reply("Document service not initialized")
    /\ \A i \in DOMAIN tasks : tasks[i].sent # <<>> => Initialized

\* C7 witness: a request that arrived while initialize() was still awaiting
\* the models endpoint has been answered.
C7_Witness ==
    /\ startup = "initializing" /\ init_pc = "awaiting"
    /\ call_pc = "answered" /\ ~invoked

\* The models endpoint was unreachable, answered with a non-success status
\* or reported no model.
FailingModelsReply(o) ==
    o.kind = "connect_error" \/ o.status # 200 \/ o.models = <<>>

\* C8: initialize() raises when the models endpoint is unreachable, answers
\* a non-success status or reports no model, and then leaves the loaded flag
\* and the model id as they were.
C8_FailedInitializeChangesNothing ==
    /\ []((init_pc = "idle" /\ init_result # "never" /\ FailingModelsReply(models_reply))
            => init_result = "raised")
    /\ [][(init_pc = "awaiting" /\ init_pc' = "idle" /\ FailingModelsReply(models_reply'))
            => (model_loaded' = model_loaded /\ model_name' = model_name)]_vars

\* C8 witness: a loaded client running a substituted model was initialized
\* again, the endpoint reported no model, and the client is as it was.
C8_Witness ==
    /\ init_pc = "idle" /\ init_result = "raised"
    /\ models_reply.status = 200 /\ models_reply.models = <<>>
    /\ model_loaded /\ model_name = "m1"

\* C9 as stated: after a successful initialize() the client is loaded with
\* the configured default when the endpoint reported it and with the first
\* reported id otherwise; a loaded client's model id is among the ids
\* reported to the last successful initialize().
C9_Original ==
    /\ (init_pc = "idle" /\ init_result = "ok") =>
           /\ model_loaded
           /\ model_name = IF DefaultModelName \in Range(reported)
                           THEN DefaultModelName ELSE reported[1]
    /\ model_loaded => model_name \in Range(reported)

\* C10: every completion request posted for a slot of kind k carries k's
\* fixed max_tokens and temperature, whatever the input text,
\* project name, additional context and position.
C10_FixedPolicyPerKind ==
    \A i \in DOMAIN tasks : \A j \in DOMAIN tasks[i].sent :
        LET k == request.document_types[i]
            r == tasks[i].sent[j]
        IN  /\ k = PRD          => (r.max_tokens = 3000 /\ r.temperature = "0.3")
            /\ k = WHAT_IS_THIS => (r.max_tokens = 2500 /\ r.temperature = "0.7")
            /\ k = README       => (r.max_tokens = 2000 /\ r.temperature = "0.5")

\* C10 witness: the same kind twice in one request, both requests posted
\* with the same parameters, for a long input with a project name.
C10_Witness ==
    /\ Len(tasks) = 2
    /\ request.document_types[1] = request.document_types[2]
    /\ request.input_text.len = MaxInputLength /\ request.project_name = "P"
    /\ tasks[1].sent # <<>> /\ tasks[2].sent # <<>>
    /\ tasks[1].sent[1].max_tokens = tasks[2].sent[1].max_tokens
    /\ tasks[1].sent[1].temperature = tasks[2].sent[1].temperature

\* C11: with the client loaded, a generate_documents call has one task per
\* requested slot and each task posts exactly one completion request,
\* whether the request succeeds, is answered with an error status or times
\* out; no task ever posts a second request.
C11_OneRequestPerSlot ==
    /\ call_pc # "idle" /\ invoked => Len(tasks) = Len(request.document_types)
    /\ \A i \in DOMAIN tasks :
           /\ Len(tasks[i].sent) <= 1
           /\ (tasks[i].pc # "created" /\ tasks[i].was_loaded) =>
                  Len(tasks[i].sent) = 1

\* C11 witness: a returned call of two slots over a loaded client, one
\* answered with an error status and one timed out, each having posted one
\* request.
C11_Witness ==
    /\ Returned /\ model_loaded /\ Len(tasks) = 2
    /\ tasks[1].pc = "raised" /\ tasks[1].reply.status = 500
    /\ tasks[2].pc = "raised" /\ tasks[2].reply.kind = "timeout"
    /\ Len(tasks[1].sent) = 1 /\ Len(tasks[2].sent) = 1

\* C12 as stated: POST /api/v1/generate with an empty or whitespace-only
\* input_text is answered 400 without reaching the orchestrator, whether the
\* services are initialized or not.
C12_Original ==
    (mode = "http" /\ call_pc = "answered" /\ request.input_text.blank) =>
        (http_status = 400 /\ ~invoked)

\* C13: with the services initialized, POST /api/v1/generate answers 400
\* to every input_text longer than 10,000 characters and starts no task for
\* it, a non-blank input_text of 1 to 10,000 characters goes on to the
\* orchestrator, and the status of an unexpected server error (500) is not
\* the rejection status.
C13_LengthLimitAtTenThousand ==
    /\ [][(mode = "http" /\ call_pc = "idle" /\ call_pc' # "idle"
                /\ document_service # None) =>
              call_pc' = "resolved"]_vars
    /\ [][(mode = "http" /\ call_pc = "resolved" /\ call_pc' # "resolved") =>
              LET t == request.input_text
              IN  /\ request' = request
                  /\ t.len > MaxInputLength =>
                         /\ call_pc' = "answered" /\ http_status' = 400
                         /\ ~invoked' /\ tasks' = <<>>
                  /\ (~t.blank /\ t.len >= 1 /\ t.len <= MaxInputLength) =>
                         /\ call_pc' = "gathering" /\ invoked'
                         /\ http_status' # 400
                  /\ http_answer([raised |-> "error", response |-> NoResponse]) = 500
         ]_vars

\* C13 witness: an input of exactly 10,000 characters went through the
\* orchestrator and was answered 200.
C13_Witness ==
    /\ mode = "http" /\ Returned /\ http_status = 200
    /\ request.input_text.len = MaxInputLength
    /\ tasks # <<>>

\* C14 as stated: every request that reaches generate_documents through the
\* HTTP endpoint or through one of the four tools has an input text of 1 to
\* 10,000 characters; an empty or over-length input never gets there.
C14_Original ==
    (mode \in {"http", "mcp"} /\ call_pc # "idle" /\ invoked) =>
        /\ request.input_text.len >= 1
        /\ request.input_text.len <= MaxInputLength

\* C15 as stated: a health query made while the generation client has not
\* completed initialization (no handle yet, or a handle that is not loaded)
\* is answered with a health response reporting not-ready, not with an
\* error.
C15_Original ==
    (probe.endpoint = "health" /\ probe.status # 0 /\ ~model_loaded) =>
        /\ probe.status = 200
        /\ probe.health.model_loaded = FALSE
        /\ probe.health.status \notin {None, "healthy"}

\* C15 as amended: a health query whose handler finds the client handle
\* created and the client not loaded is answered 200 with a health response
\* of status model_not_loaded and model_loaded false; a query made while
\* there is no handle yet is answered with the error status 503 and no
\* health response.
C15_NotReadyOnceHandleExists ==
    /\ [][(probe = NoProbe /\ probe'.endpoint = "health" /\ llm_service = None) =>
              probe'.status = 503 /\ probe'.health = NoHealth]_vars
    /\ [][(probe.endpoint = "health" /\ probe.status = 0 /\ probe'.status # 0
                /\ ~model_loaded) =>
              /\ llm_service # None
              /\ probe'.status = 200
              /\ probe'.health.status = "model_not_loaded"
              /\ probe'.health.model_loaded = FALSE]_vars

\* C15 witness: health was queried while initialize() was still awaiting the
\* models endpoint, and answered not-ready.
C15_Witness ==
    /\ llm_service # None /\ init_pc = "awaiting" /\ ~model_loaded
    /\ probe.endpoint = "health" /\ probe.status = 200
    /\ probe.health.status = "model_not_loaded"

\* C16: while the HTTP adapter's client handle is None, GET /api/v1/health
\* and GET /api/v1/metrics are both answered 503 and neither a health nor a
\* metrics body is computed.
C16_NoHandleAnswers503 ==
    [][(probe = NoProbe /\ probe' # NoProbe /\ llm_service = None) =>
          /\ probe'.endpoint \in {"health", "metrics"}
          /\ probe'.status = 503
          /\ probe'.health = NoHealth
          /\ probe'.metrics = NoMetrics
      ]_vars

\* C16 witness: metrics was queried before the client handle was created
\* and answered 503.
C16_Witness ==
    /\ mode = "http" /\ llm_service = None
    /\ probe.endpoint = "metrics" /\ probe.status = 503

\* Non-success answers of the completion endpoint, differing in status and
\* in body.
ErrorReplies ==
    { [kind |-> "response", status |-> st, text |-> body] :
          st \in {500, 503}, body \in {<<"e">>, <<"f">>} }

\* C17 as stated: a generate call answered with a non-success status fails
\* with an error whose value carries the response status and the response
\* body (so no answer with another status or another body gives the same
\* error value), and a call answered with success returns the first
\* choice's content with the surrounding whitespace trimmed.
C17_Original ==
    \A i \in DOMAIN tasks :
        /\ (tasks[i].reply.kind = "response" /\ tasks[i].reply.status # 200) =>
               /\ tasks[i].pc = "raised"
               /\ \A o \in ErrorReplies :
                      completion_result(o).value = tasks[i].error =>
                          /\ o.status = tasks[i].reply.status
                          /\ o.text = tasks[i].reply.text
        /\ (tasks[i].reply.kind = "response" /\ tasks[i].reply.status = 200) =>
               /\ tasks[i].pc = "returned"
               /\ tasks[i].doc.content = strip(tasks[i].reply.text)

\* C18 as stated: the combined tool called with a document_types argument
\* of n entries (the three kinds when the argument is omitted) replies with
\* n+1 text items: the summary stating the count n, then one item per entry
\* in the order given, labelled with the entry's kind.
C18_Original ==
    (mode = "mcp" /\ call_pc = "answered" /\ invoked
         /\ tool = "generate_documents") =>
        LET entries == IF tool_kinds.given THEN tool_kinds.value
                       ELSE DefaultDocumentTypes
            n == Len(entries)
        IN  /\ Len(mcp_items) = n + 1
            /\ mcp_items[1].part = "summary" /\ mcp_items[1].count = n
            /\ \A i \in 1..n :
                   /\ mcp_items[i + 1].part = "document"
                   /\ mcp_items[i + 1].label = doc_type_name(entries[i])

\* The three single-kind tools.
SingleKindTools == {"generate_prd", "generate_readme", "generate_overview"}

\* C19: handle_call_tool always answers with a non-empty list of text items
\* and never with an exception: the single item "Error: Document service
\* not initialized", without reaching the orchestrator, while the
\* orchestrator handle is unset; "Unknown tool: <name>" for a name outside
\* the four tools; the single item "Error: <message>" when the tool handler
\* raised; and for a single-kind tool whose upstream call failed, the
\* content of that document's error placeholder.
C19_ToolCallsAlwaysAnswerWithItems ==
    /\ []((mode = "mcp" /\ call_pc = "answered") =>
            /\ Len(mcp_items) >= 1
            /\ \A k \in DOMAIN mcp_items : mcp_items[k].type = "text"
            /\ raised # "" => mcp_items = error_reply(raised)
            /\ (invoked /\ tool \in SingleKindTools /\ tasks[1].pc = "raised") =>
                   mcp_items =
                       <<TextItem("content", 0, "",
                                  error_document(request.document_types[1],
                                                 tasks[1].error).content)>>)
    /\ [][(mode = "mcp" /\ call_pc = "idle" /\ call_pc' # "idle") =>
            /\ document_service = None =>
                   /\ call_pc' = "answered" /\ ~invoked' /\ tasks' = <<>>
                   /\ mcp_items' = <<TextItem("Error: ", 0,
                                        "Document service not initialized", <<>>)>>
            /\ (document_service # None
                    /\ tool' \notin SingleKindTools \cup {"generate_documents"}) =>
                   /\ call_pc' = "answered" /\ ~invoked'
                   /\ mcp_items' = <<TextItem("Unknown tool: ", 0, tool', <<>>)>>
            /\ (document_service # None /\ tool' = "generate_documents"
                    /\ ~tool_kinds'.is_list) =>
                   /\ call_pc' = "answered" /\ ~invoked'
                   /\ Len(mcp_items') = 1
                   /\ mcp_items'[1].part = "Error: "
                   /\ mcp_items'[1].label # ""
         ]_vars

\* C19 witness: generate_prd was called on an initialized server, its
\* upstream call timed out, and the reply is the error placeholder's text.
C19_Witness ==
    /\ mode = "mcp" /\ call_pc = "answered" /\ invoked
    /\ tool = "generate_prd"
    /\ tasks[1].pc = "raised" /\ tasks[1].reply.kind = "timeout"
    /\ Len(mcp_items) = 1 /\ mcp_items[1].part = "content"

\* A tool handler raised and handle_call_tool returned the exception's text.
C19_HandlerRaised ==
    /\ mode = "mcp" /\ call_pc = "answered" /\ document_service # None
    /\ tool = "generate_documents" /\ ~tool_kinds.is_list
    /\ mcp_items = error_reply("'int' object is not iterable")

\* C20 as stated: whatever additional_context the caller supplied, a
\* document of a returned response has error = true in its metadata exactly
\* when its slot's generation call failed, and a successful document's
\* metadata has the generated generated_at, project_name, input_length,
\* output_length and model.
C20_Original ==
    Returned =>
        \A i \in DOMAIN response.documents :
            LET d == response.documents[i]
            IN  /\ ("error" \in DOMAIN d.metadata /\ d.metadata.error = TRUE)
                       <=> tasks[i].pc = "raised"
                /\ tasks[i].pc = "returned" =>
                       /\ d.metadata.generated_at = "time"
                       /\ d.metadata.project_name = request.project_name
                       /\ d.metadata.input_length = request.input_text.len
                       /\ d.metadata.output_length = Len(d.content)
                       /\ d.metadata.model = model_name

====
